---- MODULE Spec2Model ----
(***************************************************************************)
(* The real-time session core of src/index.js: the presence registry       *)
(* (activeUsers), the room table (activeRooms), the socket.io adapter's    *)
(* rooms (the 'matching-queue' room, one room per socket id, the pair      *)
(* rooms) and the handlers registered in io.on('connection').              *)
(*                                                                         *)
(* Node runs every handler to completion up to its next await, so each     *)
(* action below is one such run. `out` is the list of emits of the last    *)
(* run, each with the set of connections it was delivered to; `last` names *)
(* the event that run handled.                                             *)
(***************************************************************************)
EXTENDS Integers, Sequences, FiniteSets, TLC

\* ---------------------------------------------------------------- bounds
\* connections that ever connect (socket ids are handed out in this order)
MaxConns == 3

\* user:join events handled in one run
MaxJoins == 1

\* match:request events handled in one run
MaxRequests == 2

\* room:leave events handled in one run
MaxLeaves == 1

\* match:request events handled in one run of SpecPairing
MaxPairingRequests == 4

\* message:send and webrtc:* events handled in one run
MaxRelays == 1

\* user:join events in a run of joins and disconnects handled one after another
MaxPresenceJoins == 4

\* user:join events in a run of SpecRejoin
MaxRejoins == 3
Conns == 1 .. MaxConns

\* payloads clients send
JoinData == { [userId |-> 11, username |-> "ann"],
              [userId |-> 22, username |-> "bob"] }

Texts == {"hi"}

Payloads == {"sdp"}

\* values Date.now() returns
Times == {1000}

\* the signaling events
SignalKinds == {"webrtc:offer", "webrtc:answer", "webrtc:ice-candidate"}

\* ----------------------------------------------------- adapter room names
\* A room name is a string in the code; the three shapes that occur are the
\* socket's own id, 'matching-queue' and `room_${user1}_${user2}`.
SidRoom(c) == <<"sid", c, 0>>

QueueRoom == <<"matching-queue", 0, 0>>

PairRoom(u1, u2) == <<"room", u1, u2>>

PairRooms == { PairRoom(a, b) : a \in Conns, b \in Conns } \ { PairRoom(a, a) : a \in Conns }

RoomNames == { SidRoom(c) : c \in Conns } \cup {QueueRoom} \cup PairRooms

\* activeUsers.get(id)?.username when there is no entry
Undefined == "undefined"

VARIABLES
  status,        \* per connection: "new", "connected", "closing" (disconnect handler awaiting), "gone"
  activeUsers,   \* Map socket.id -> {userId, username}
  activeRooms,   \* Map roomId -> {user1, user2} (startTime is written, never read)
  adapter,       \* io.sockets.adapter.rooms: [queue, members]
  pendingJoin,   \* per connection: user:join handlers waiting on User.findByIdAndUpdate
  roomsAtClose,  \* per connection: the pair rooms it was in when its transport closed
  waitingAtClose, \* the connections that were in the queue when their transport closed
  joined,        \* the connections whose user:join ran to `activeUsers.set`
  handled,       \* number of events handled so far, by kind; `registered` counts the
                 \* user:join runs that reached `activeUsers.set`
  uncaught,      \* an error was thrown out of a handler: the process ends
  out,           \* emits of the last handler run: [ev, to, data]
  last           \* the event the last handler run handled

vars == <<status, activeUsers, activeRooms, adapter, pendingJoin, roomsAtClose, waitingAtClose,
          joined, handled, uncaught, out, last>>

\* ------------------------------------------------------------- helpers
Range(s) == { s[i] : i \in 1 .. Len(s) }

\* Set.delete on an insertion-ordered Set
Without(s, x) == SelectSeq(s, LAMBDA y : y # x)

\* The adapter keeps each room as a Set of socket ids. Only the order of
\* 'matching-queue' is ever read (Array.from(...)[0], [1]), so `queue` is that
\* room in insertion order and `members` holds the other rooms.
Members(ad, r) ==
  IF r = QueueRoom THEN Range(ad.queue)
  ELSE IF r \in RoomNames THEN ad.members[r]
  ELSE {}

\* socket.join(room): Set.add keeps the position of a member already there
Join(ad, c, r) ==
  IF r = QueueRoom
  THEN IF c \in Range(ad.queue) THEN ad ELSE [ad EXCEPT !.queue = Append(@, c)]
  ELSE IF r \in RoomNames THEN [ad EXCEPT !.members[r] = @ \cup {c}]
  ELSE ad

\* socket.leave(room)
Leave(ad, c, r) ==
  IF r = QueueRoom THEN [ad EXCEPT !.queue = Without(@, c)]
  ELSE IF r \in RoomNames THEN [ad EXCEPT !.members[r] = @ \ {c}]
  ELSE ad

\* socket.rooms
SocketRooms(ad, c) == { r \in RoomNames : c \in Members(ad, r) }

\* a transport close that leaves the socket in the queue
LeaveAll_KeepsQueue(ad, c) ==
  [queue |-> ad.queue,
   members |-> [r \in DOMAIN ad.members |-> ad.members[r] \ {c}]]

\* socket.leaveAll(), run by socket.io when the transport closes
LeaveAll(ad, c) ==
  [queue |-> Without(ad.queue, c),
   members |-> [r \in DOMAIN ad.members |-> ad.members[r] \ {c}]]

\* io.sockets.sockets: the sockets of the namespace
Connected == { c \in Conns : status[c] = "connected" }

Emit(ev, to, data) == [ev |-> ev, to |-> to, data |-> data]

\* io.to(room).emit(...)
ToRoom(ad, r) == Members(ad, r)

\* a relay that echoes to the sender
ToRoomExcept_Echo(ad, r, c) == Members(ad, r)

\* socket.to(room).emit(...): the room without the sender
ToRoomExcept(ad, r, c) == Members(ad, r) \ {c}

Evt(op, c, r) == [op |-> op, c |-> c, roomId |-> r]

\* a payload without roomId
NoRoom == <<"", 0, 0>>

\* Number.prototype.toString(): the decimal digits, a string and not the number
NumberToString(n) == <<"string", n>>

\* ---------------------------------------------------------------- Init
Init ==
  /\ status = [c \in Conns |-> "new"]
  /\ activeUsers = <<>>
  /\ activeRooms = <<>>
  /\ adapter = [queue |-> <<>>, members |-> [r \in RoomNames \ {QueueRoom} |-> {}]]
  /\ pendingJoin = [c \in Conns |-> <<>>]
  /\ roomsAtClose = [c \in Conns |-> {}]
  /\ waitingAtClose = {}
  /\ joined = {}
  /\ uncaught = FALSE
  /\ handled = [join |-> 0, registered |-> 0, request |-> 0, leave |-> 0, relay |-> 0]
  /\ out = <<>>
  /\ last = Evt("init", 0, NoRoom)

\* io.on('connection'): socket.io puts the socket into the room named by its id.
\* Socket ids are fresh; they are handed out in the order 1, 2, ...
Connection(c) ==
  /\ status[c] = "new"
  /\ \A d \in Conns : d < c => status[d] # "new"
  /\ status' = [status EXCEPT ![c] = "connected"]
  /\ adapter' = Join(adapter, c, SidRoom(c))
  /\ out' = <<>>
  /\ last' = Evt("connection", c, NoRoom)
  /\ UNCHANGED <<activeUsers, activeRooms, pendingJoin, roomsAtClose, handled, joined,
                 uncaught, waitingAtClose>>

\* ------------------------------------------------------------ user:join
\* Map.set
MapSet(m, k, v) == [x \in DOMAIN m \cup {k} |-> IF x = k THEN v ELSE m[x]]

\* Map.delete
MapDelete(m, k) == [x \in DOMAIN m \ {k} |-> m[x]]

\* socket.emit(...): to the socket itself, while it is connected
ToSelf(c) == IF status[c] = "connected" THEN {c} ELSE {}

\* user:join up to `await User.findByIdAndUpdate(...)`
UserJoin(c, d) ==
  /\ status[c] = "connected"
  /\ handled' = [handled EXCEPT !.join = @ + 1]
  /\ pendingJoin' = [pendingJoin EXCEPT ![c] = Append(@, d)]
  /\ out' = <<>>
  /\ last' = Evt("user:join", c, NoRoom)
  /\ UNCHANGED <<status, activeUsers, activeRooms, adapter, roomsAtClose, joined, uncaught,
                 waitingAtClose>>

RemoveAt(s, i) == SubSeq(s, 1, i - 1) \o SubSeq(s, i + 1, Len(s))

\* a broadcast that counts the user:join events handled, not the registry
UserJoinResolved_CountsJoins(c, i) ==
  /\ i \in 1 .. Len(pendingJoin[c])
  /\ pendingJoin' = [pendingJoin EXCEPT ![c] = RemoveAt(@, i)]
  /\ activeUsers' = MapSet(activeUsers, c, pendingJoin[c][i])
  /\ joined' = joined \cup {c}
  /\ handled' = [handled EXCEPT !.registered = @ + 1]
  /\ out' = << Emit("user:joined", ToSelf(c), [success |-> TRUE]),
               Emit("users:count", Connected, [count |-> handled.join]) >>
  /\ last' = Evt("user:join:resolved", c, NoRoom)
  /\ UNCHANGED <<status, activeRooms, adapter, roomsAtClose, uncaught, waitingAtClose>>
\* the user-store update resolved: the rest of the try block
UserJoinResolved(c, i) ==
  /\ i \in 1 .. Len(pendingJoin[c])
  /\ pendingJoin' = [pendingJoin EXCEPT ![c] = RemoveAt(@, i)]
  /\ activeUsers' = MapSet(activeUsers, c, pendingJoin[c][i])
  /\ joined' = joined \cup {c}
  /\ handled' = [handled EXCEPT !.registered = @ + 1]
  /\ out' = << Emit("user:joined", ToSelf(c), [success |-> TRUE]),
               Emit("users:count", Connected, [count |-> Cardinality(DOMAIN activeUsers')]) >>
  /\ last' = Evt("user:join:resolved", c, NoRoom)
  /\ UNCHANGED <<status, activeRooms, adapter, roomsAtClose, uncaught, waitingAtClose>>

\* a catch block that completes the in-memory join all the same
UserJoinRejected_StillJoins(c, i) ==
  /\ i \in 1 .. Len(pendingJoin[c])
  /\ pendingJoin' = [pendingJoin EXCEPT ![c] = RemoveAt(@, i)]
  /\ activeUsers' = MapSet(activeUsers, c, pendingJoin[c][i])
  /\ out' = << Emit("user:joined", ToSelf(c), [success |-> FALSE]),
               Emit("users:count", Connected, [count |-> Cardinality(DOMAIN activeUsers')]) >>
  /\ last' = Evt("user:join:rejected", c, NoRoom)
  /\ UNCHANGED <<status, activeRooms, adapter, roomsAtClose, handled, joined, uncaught,
                 waitingAtClose>>
\* the user-store update rejected: the catch block
UserJoinRejected(c, i) ==
  /\ i \in 1 .. Len(pendingJoin[c])
  /\ pendingJoin' = [pendingJoin EXCEPT ![c] = RemoveAt(@, i)]
  /\ out' = << Emit("user:joined", ToSelf(c), [success |-> FALSE]) >>
  /\ last' = Evt("user:join:rejected", c, NoRoom)
  /\ UNCHANGED <<status, activeUsers, activeRooms, adapter, roomsAtClose, handled, joined,
                 uncaught, waitingAtClose>>

\* -------------------------------------------------------- match:request
\* last.roomId of a match:request is the room the handler made, NoRoom if none
\* io.sockets.sockets.get(u)?.join(room) and ?.leave(room)
SockJoin(ad, u, r) == IF u \in Connected THEN Join(ad, u, r) ELSE ad

SockLeave(ad, u, r) == IF u \in Connected THEN Leave(ad, u, r) ELSE ad

\* activeUsers.get(u)?.username
UserName(u) == IF u \in DOMAIN activeUsers THEN activeUsers[u].username ELSE Undefined

\* a pairing that leaves user1 in the queue
Paired_KeepsFirstQueued(ad, user1, user2) ==
  LET roomId == PairRoom(user1, user2)
      r2 == SockLeave(ad, user2, QueueRoom)
      r3 == SockJoin(r2, user1, roomId)
  IN  SockJoin(r3, user2, roomId)
\* the adapter rooms after the pairing of user1 and user2
Paired(ad, user1, user2) ==
  LET roomId == PairRoom(user1, user2)
      r1 == SockLeave(ad, user1, QueueRoom)
      r2 == SockLeave(r1, user2, QueueRoom)
      r3 == SockJoin(r2, user1, roomId)
  IN  SockJoin(r3, user2, roomId)

\* the two match:found emits
MatchFound(ad, user1, user2) ==
  LET roomId == PairRoom(user1, user2)
  IN << Emit("match:found", ToRoom(ad, SidRoom(user1)),
             [roomId |-> roomId, partnerId |-> user2, partnerName |-> UserName(user2)]),
        Emit("match:found", ToRoom(ad, SidRoom(user2)),
             [roomId |-> roomId, partnerId |-> user1, partnerName |-> UserName(user1)]) >>

\* a handler that pairs only from the third waiting connection on
Pairs_FromThree(matchingUsers, c) == Len(matchingUsers) >= 3 /\ matchingUsers[1] # c
\* whether the handler, with the queue as matchingUsers, pairs
Pairs(matchingUsers, c) == Len(matchingUsers) >= 2 /\ matchingUsers[1] # c

MatchRequest(c) ==
  /\ status[c] = "connected"
  /\ handled' = [handled EXCEPT !.request = @ + 1]
  /\ LET queued == Join(adapter, c, QueueRoom)
         matchingUsers == queued.queue
         searching == Emit("match:searching", ToSelf(c), [none |-> TRUE])
     IN IF Pairs(matchingUsers, c)
        THEN LET user1 == matchingUsers[1]
                 user2 == matchingUsers[2]
             IN /\ adapter' = Paired(queued, user1, user2)
                /\ activeRooms' = MapSet(activeRooms, PairRoom(user1, user2),
                                         [user1 |-> user1, user2 |-> user2])
                /\ out' = <<searching>> \o MatchFound(adapter', user1, user2)
                /\ last' = Evt("match:request", c, PairRoom(user1, user2))
        ELSE /\ adapter' = queued
             /\ activeRooms' = activeRooms
             /\ out' = <<searching>>
             /\ last' = Evt("match:request", c, NoRoom)
  /\ UNCHANGED <<status, activeUsers, pendingJoin, roomsAtClose, joined, uncaught, waitingAtClose>>

\* ------------------------------------------------- client-supplied roomId
\* roomId is whatever the client sends. Every name that is neither a room of
\* the adapter nor a key of activeRooms behaves alike (nothing is delivered,
\* nothing changes), so the names drawn are the rooms that exist, plus a
\* payload without roomId.
ClientRooms ==
  { r \in RoomNames : Members(adapter, r) # {} \/ r \in DOMAIN activeRooms } \cup {NoRoom}

\* --------------------------------------------------------- message:send
MessageSend(c, roomId, message, now) ==
  /\ status[c] = "connected"
  /\ out' = IF c \in DOMAIN activeUsers /\ roomId # NoRoom
            THEN << Emit("message:received", ToRoom(adapter, roomId),
                         [id |-> NumberToString(now), userId |-> activeUsers[c].userId,
                          username |-> activeUsers[c].username,
                          message |-> message, type |-> "text"]) >>
            ELSE <<>>
  /\ last' = Evt("message:send", c, roomId)
  /\ handled' = [handled EXCEPT !.relay = @ + 1]
  /\ UNCHANGED <<status, activeUsers, activeRooms, adapter, pendingJoin, roomsAtClose, joined,
                 uncaught, waitingAtClose>>

\* ------------------------------------------------------------- webrtc:*
Signal(kind, c, roomId, payload) ==
  /\ status[c] = "connected"
  /\ out' = << Emit(kind, ToRoomExcept(adapter, roomId, c), [payload |-> payload, from |-> c]) >>
  /\ last' = Evt(kind, c, roomId)
  /\ handled' = [handled EXCEPT !.relay = @ + 1]
  /\ UNCHANGED <<status, activeUsers, activeRooms, adapter, pendingJoin, roomsAtClose, joined,
                 uncaught, waitingAtClose>>

WebrtcOffer(c, roomId, offer) == Signal("webrtc:offer", c, roomId, offer)

WebrtcAnswer(c, roomId, answer) == Signal("webrtc:answer", c, roomId, answer)

WebrtcIceCandidate(c, roomId, candidate) == Signal("webrtc:ice-candidate", c, roomId, candidate)

\* ----------------------------------------------------------- room:leave
\* a clean-up that already takes a room with one member left for empty
RoomEmpty_OneLeft(ad, roomId) == Cardinality(Members(ad, roomId)) <= 1

\* `!room || room.size === 0`: the adapter drops a room when it empties
RoomEmpty(ad, roomId) == Members(ad, roomId) = {}

RoomLeave(c, roomId) ==
  /\ status[c] = "connected"
  /\ handled' = [handled EXCEPT !.leave = @ + 1]
  /\ IF roomId # NoRoom
     THEN /\ out' = << Emit("partner:disconnected", ToRoomExcept(adapter, roomId, c), [none |-> TRUE]) >>
          /\ adapter' = Leave(adapter, c, roomId)
          /\ activeRooms' = IF RoomEmpty(adapter', roomId)
                            THEN MapDelete(activeRooms, roomId)
                            ELSE activeRooms
     ELSE /\ out' = <<>>
          /\ UNCHANGED <<adapter, activeRooms>>
  /\ last' = Evt("room:leave", c, roomId)
  /\ UNCHANGED <<status, activeUsers, pendingJoin, roomsAtClose, joined, uncaught, waitingAtClose>>

\* ----------------------------------------------------------- disconnect
\* the rooms the forEach of the disconnect handler acts on
RoomsToLeave(ad, c) == SocketRooms(ad, c) \ {SidRoom(c)}

RECURSIVE NotifyPartners(_, _, _)
NotifyPartners(ad, c, rs) ==
  IF rs = {} THEN <<>>
  ELSE LET r == CHOOSE x \in rs : TRUE
       IN <<Emit("partner:disconnected", ToRoomExcept(ad, r, c), [none |-> TRUE])>>
          \o NotifyPartners(ad, c, rs \ {r})

\* `!room || room.size <= 1`
RoomOver(ad, roomId) == Cardinality(Members(ad, roomId)) <= 1

CleanUpRooms(ad, c, table) ==
  [r \in DOMAIN table \ { x \in RoomsToLeave(ad, c) : RoomOver(ad, x) } |-> table[r]]

\* the handler from `socket.rooms.forEach` on, with `users` as activeUsers
DisconnectCleanup(c, users) ==
  /\ activeRooms' = CleanUpRooms(adapter', c, activeRooms)
  /\ out' = NotifyPartners(adapter', c, RoomsToLeave(adapter', c))
            \o << Emit("users:count", Connected \ {c}, [count |-> Cardinality(DOMAIN users)]) >>

\* The transport closes. socket.io leaves all rooms of the socket and takes it
\* out of the namespace before it emits 'disconnect'; the handler then runs up
\* to `await User.findByIdAndUpdate(...)` if the socket has a registry entry,
\* and to its end otherwise.
Disconnect(c) ==
  /\ status[c] = "connected"
  /\ roomsAtClose' = [roomsAtClose EXCEPT ![c] = SocketRooms(adapter, c) \cap PairRooms]
  /\ waitingAtClose' = IF QueueRoom \in SocketRooms(adapter, c)
                       THEN waitingAtClose \cup {c}
                       ELSE waitingAtClose
  /\ adapter' = LeaveAll(adapter, c)
  /\ IF c \in DOMAIN activeUsers
     THEN /\ status' = [status EXCEPT ![c] = "closing"]
          /\ out' = <<>>
          /\ UNCHANGED activeRooms
     ELSE /\ status' = [status EXCEPT ![c] = "gone"]
          /\ DisconnectCleanup(c, activeUsers)
  /\ last' = Evt("disconnect", c, NoRoom)
  /\ UNCHANGED <<activeUsers, pendingJoin, handled, joined, uncaught>>

\* the user-store update of the disconnect handler resolved
DisconnectResolved(c) ==
  /\ status[c] = "closing"
  /\ status' = [status EXCEPT ![c] = "gone"]
  /\ activeUsers' = MapDelete(activeUsers, c)
  /\ adapter' = adapter
  /\ DisconnectCleanup(c, activeUsers')
  /\ last' = Evt("disconnect:resolved", c, NoRoom)
  /\ UNCHANGED <<pendingJoin, roomsAtClose, handled, joined, uncaught, waitingAtClose>>

\* the user-store update of the disconnect handler rejected: the catch block
DisconnectRejected(c) ==
  /\ status[c] = "closing"
  /\ status' = [status EXCEPT ![c] = "gone"]
  /\ out' = <<>>
  /\ last' = Evt("disconnect:rejected", c, NoRoom)
  /\ UNCHANGED <<activeUsers, activeRooms, adapter, pendingJoin, roomsAtClose, handled,
                 joined, uncaught, waitingAtClose>>

\* ------------------------------------------------ events without payload
\* the client emitted the event without arguments: `data` is undefined
NoData == <<"nodata", 0, 0>>

\* user:join: `const { userId, username } = data` throws inside the try block,
\* before the await; the catch block answers
UserJoinNoData(c) ==
  /\ status[c] = "connected"
  /\ handled' = [handled EXCEPT !.join = @ + 1]
  /\ out' = << Emit("user:joined", ToSelf(c), [success |-> FALSE]) >>
  /\ last' = Evt("user:join", c, NoData)
  /\ UNCHANGED <<status, activeUsers, activeRooms, adapter, pendingJoin, roomsAtClose, joined,
                 uncaught, waitingAtClose>>

\* a listener without try block reads a property of undefined: the TypeError
\* leaves the listener before it has done anything
Throws(op, c) ==
  /\ status[c] = "connected"
  /\ uncaught' = TRUE
  /\ out' = <<>>
  /\ last' = Evt(op, c, NoData)
  /\ UNCHANGED <<status, activeUsers, activeRooms, adapter, pendingJoin, roomsAtClose, joined,
                 waitingAtClose>>

\* message:send: `const { roomId, message, type = 'text' } = data`
MessageSendNoData(c) ==
  /\ Throws("message:send", c)
  /\ handled' = [handled EXCEPT !.relay = @ + 1]

\* webrtc:offer, webrtc:answer, webrtc:ice-candidate: `data.roomId`
SignalNoData(kind, c) ==
  /\ Throws(kind, c)
  /\ handled' = [handled EXCEPT !.relay = @ + 1]

\* room:leave: `const { roomId } = data`
RoomLeaveNoData(c) ==
  /\ Throws("room:leave", c)
  /\ handled' = [handled EXCEPT !.leave = @ + 1]
\* ------------------------------------------------------------ the runs
\* The relay handlers (message:send, webrtc:*) change nothing but what they
\* emit, so every state one of them can run in is reached without the relays
\* before it: a run takes its relay events last.
Quiet == handled.relay = 0

MayRelay == handled.relay < MaxRelays

\* the handlers that change the registry, the queue or the rooms
Lifecycle(maxRequests) ==
  \/ \E c \in Conns : Quiet /\ Connection(c)
  \/ \E c \in Conns, d \in JoinData : Quiet /\ handled.join < MaxJoins /\ UserJoin(c, d)
  \/ \E c \in Conns, i \in 1 .. MaxJoins : Quiet /\ UserJoinResolved(c, i)
  \/ \E c \in Conns, i \in 1 .. MaxJoins : Quiet /\ UserJoinRejected(c, i)
  \/ \E c \in Conns : Quiet /\ handled.request < maxRequests /\ MatchRequest(c)
  \/ \E c \in Conns, r \in ClientRooms : Quiet /\ handled.leave < MaxLeaves /\ RoomLeave(c, r)
  \/ \E c \in Conns : Quiet /\ Disconnect(c)
  \/ \E c \in Conns : Quiet /\ DisconnectResolved(c)
  \/ \E c \in Conns : Quiet /\ DisconnectRejected(c)

Signals ==
  \/ \E c \in Conns, r \in ClientRooms, p \in Payloads : MayRelay /\ WebrtcOffer(c, r, p)
  \/ \E c \in Conns, r \in ClientRooms, p \in Payloads : MayRelay /\ WebrtcAnswer(c, r, p)
  \/ \E c \in Conns, r \in ClientRooms, p \in Payloads : MayRelay /\ WebrtcIceCandidate(c, r, p)

Messages ==
  \E c \in Conns, r \in ClientRooms, m \in Texts, t \in Times : MayRelay /\ MessageSend(c, r, m, t)

Next == Lifecycle(MaxRequests) \/ Messages \/ Signals

Spec == Init /\ [][Next]_vars

\* more pairings, without the relays
NextPairing == Lifecycle(MaxPairingRequests)

SpecPairing == Init /\ [][NextPairing]_vars

\* clients that never send user:join or message:send, with more pairings
NextSignal ==
  \/ \E c \in Conns : Quiet /\ Connection(c)
  \/ \E c \in Conns : Quiet /\ handled.request < MaxPairingRequests /\ MatchRequest(c)
  \/ \E c \in Conns, r \in ClientRooms : Quiet /\ handled.leave < MaxLeaves /\ RoomLeave(c, r)
  \/ \E c \in Conns : Quiet /\ Disconnect(c)
  \/ \E c \in Conns, r \in ClientRooms, p \in Payloads : MayRelay /\ WebrtcOffer(c, r, p)
  \/ \E c \in Conns, r \in ClientRooms, p \in Payloads : MayRelay /\ WebrtcAnswer(c, r, p)
  \/ \E c \in Conns, r \in ClientRooms, p \in Payloads : MayRelay /\ WebrtcIceCandidate(c, r, p)

SpecSignal == Init /\ [][NextSignal]_vars

\* joins and disconnects handled one after another: a user:join or a
\* disconnect is taken up only when no handler is waiting on the user store,
\* and user:join comes from connections that have not joined yet
Idle == \A c \in Conns : pendingJoin[c] = <<>> /\ status[c] # "closing"

NextPresence ==
  \/ \E c \in Conns : Connection(c)
  \/ \E c \in Conns \ joined, d \in JoinData :
       Idle /\ handled.join < MaxPresenceJoins /\ UserJoin(c, d)
  \/ \E c \in Conns : UserJoinResolved(c, 1)
  \/ \E c \in Conns : UserJoinRejected(c, 1)
  \/ \E c \in Conns : Idle /\ Disconnect(c)
  \/ \E c \in Conns : DisconnectResolved(c)
  \/ \E c \in Conns : DisconnectRejected(c)

SpecPresence == Init /\ [][NextPresence]_vars
\* clients that send events without payload or without roomId. No listener
\* for 'uncaughtException' is installed: an error thrown out of a handler
\* ends the process, and no handler runs after it.
Alive == ~uncaught

NextProtocol ==
  \/ \E c \in Conns : Alive /\ Connection(c)
  \/ \E c \in Conns, d \in JoinData : Alive /\ handled.join < MaxJoins /\ UserJoin(c, d)
  \/ \E c \in Conns : Alive /\ handled.join < MaxJoins /\ UserJoinNoData(c)
  \/ \E c \in Conns, i \in 1 .. MaxJoins : Alive /\ UserJoinResolved(c, i)
  \/ \E c \in Conns, i \in 1 .. MaxJoins : Alive /\ UserJoinRejected(c, i)
  \/ \E c \in Conns : Alive /\ handled.request < MaxRequests /\ MatchRequest(c)
  \/ \E c \in Conns : Alive /\ handled.leave < MaxLeaves /\ RoomLeave(c, NoRoom)
  \/ \E c \in Conns : Alive /\ handled.leave < MaxLeaves /\ RoomLeaveNoData(c)
  \/ \E c \in Conns, m \in Texts, t \in Times : Alive /\ MayRelay /\ MessageSend(c, NoRoom, m, t)
  \/ \E c \in Conns : Alive /\ MayRelay /\ MessageSendNoData(c)
  \/ \E c \in Conns, k \in SignalKinds, p \in Payloads : Alive /\ MayRelay /\ Signal(k, c, NoRoom, p)
  \/ \E c \in Conns, k \in SignalKinds : Alive /\ MayRelay /\ SignalNoData(k, c)
  \/ \E c \in Conns : Alive /\ Disconnect(c)
  \/ \E c \in Conns : Alive /\ DisconnectResolved(c)
  \/ \E c \in Conns : Alive /\ DisconnectRejected(c)

SpecProtocol == Init /\ [][NextProtocol]_vars
\* clients that send user:join again on a connection that has joined already
NextRejoin ==
  \/ \E c \in Conns : Connection(c)
  \/ \E c \in Conns, d \in JoinData : handled.join < MaxRejoins /\ UserJoin(c, d)
  \/ \E c \in Conns, i \in 1 .. MaxRejoins : UserJoinResolved(c, i)
  \/ \E c \in Conns, i \in 1 .. MaxRejoins : UserJoinRejected(c, i)
  \/ \E c \in Conns : Disconnect(c)
  \/ \E c \in Conns : DisconnectResolved(c)
  \/ \E c \in Conns : DisconnectRejected(c)

SpecRejoin == Init /\ [][NextRejoin]_vars
\* ======================================================== the properties
\* the emits of the last handler run that deliver event ev to connection c
Deliveries(c, ev) == { i \in 1 .. Len(out) : out[i].ev = ev /\ c \in out[i].to }

Received(c, ev) == Cardinality(Deliveries(c, ev))

\* the connections the last handler run delivered event ev to
Recipients(ev) == UNION { out[i].to : i \in { j \in 1 .. Len(out) : out[j].ev = ev } }

\* the pair rooms of the room table that connection c is joined to
RoomsOf(c) == { r \in PairRooms \cap DOMAIN activeRooms : c \in Members(adapter, r) }

\* the two connections a pair room was made for
UsersOf(r) == {r[2], r[3]}

\* C1: no connection is a member of two pair rooms at the same time.
C1_AtMostOneRoom == \A c \in Conns : Cardinality(RoomsOf(c)) <= 1

\* C2: while a connection stays in a room, no further room containing it is
\* created and no further match:found is delivered to it. (A connection in a
\* room can only be paired again after it has issued match:request in that
\* room: every pairing takes both connections out of the queue.)
C2_NoSecondMatch ==
  [][ \A c \in Conns : \A r \in RoomsOf(c) :
        r \in RoomsOf(c)' => /\ RoomsOf(c)' \subseteq RoomsOf(c)
                             /\ ~(last'.op = "match:request" /\ Received(c, "match:found")' > 0) ]_vars

\* C3: a message:send whose sender is not a member of the pair room it names
\* delivers message:received to nobody.
C3_NonMemberDeliversNothing ==
  ( /\ last.op = "message:send"
    /\ last.roomId \in PairRooms
    /\ last.c \notin Members(adapter, last.roomId) )
  => Recipients("message:received") = {}

\* a room of the room table that one of its two members has left
TornDown(r) == r \in PairRooms \cap DOMAIN activeRooms /\ Members(adapter, r) # UsersOf(r)

\* C4: a message:send naming a room that has been torn down delivers
\* message:received to nobody.
C4_TornDownDeliversNothing ==
  (last.op = "message:send" /\ TornDown(last.roomId))
  => Recipients("message:received") = {}

\* the last handler run finished the disconnect handling of connection a
DisconnectHandled(a) ==
  /\ last.c = a
  /\ last.op \in {"disconnect", "disconnect:resolved", "disconnect:rejected"}
  /\ status[a] = "gone"

\* C5: when the disconnect of A has been handled, every connection that is
\* still in a room A was in when it disconnected has received exactly one
\* partner:disconnected.
C5_PartnerNotifiedOnce ==
  \A a \in Conns : DisconnectHandled(a) =>
    \A r \in roomsAtClose[a] : \A b \in Members(adapter, r) :
      Received(b, "partner:disconnected") = 1

\* C6: after the disconnect of a member of a room has been handled, the room
\* table has no entry for that room.
C6_RoomEntryRemoved ==
  \A a \in Conns : status[a] = "gone" => roomsAtClose[a] \cap DOMAIN activeRooms = {}

\* connection c, a member of the two-member pair room r, has just left it by
\* room:leave (this step is the handler run)
LeftByRoomLeave(c, r) ==
  /\ c \in Members(adapter, r)
  /\ Cardinality(Members(adapter, r)) = 2
  /\ handled'.leave = handled.leave + 1
  /\ last' = Evt("room:leave", c, r)

MemberLeft(c, r) ==
  /\ c \in Members(adapter, r)
  /\ handled'.leave = handled.leave + 1
  /\ last' = Evt("room:leave", c, r)

C8_BothMembersReceive ==
  ( /\ last.op = "message:send"
    /\ last.roomId \in PairRooms \cap DOMAIN activeRooms
    /\ Members(adapter, last.roomId) = UsersOf(last.roomId)
    /\ last.c \in Members(adapter, last.roomId) )
  => /\ Len(out) = 1
     /\ out[1].ev = "message:received"
     /\ out[1].to = UsersOf(last.roomId)

\* C9: a signaling event sent by a member of a pair room is delivered, by one
\* emit of the same event tagged with the sender's id, to the members of that
\* room other than the sender and to nobody else: to the other connection the
\* room was made for if it is still in the room, never to the sender.
C9_SignalToPartnerOnly ==
  ( /\ last.op \in SignalKinds
    /\ last.roomId \in PairRooms
    /\ last.c \in Members(adapter, last.roomId) )
  => /\ Len(out) = 1
     /\ out[1].ev = last.op
     /\ out[1].data.from = last.c
     /\ last.c \notin out[1].to
     /\ out[1].to \subseteq UsersOf(last.roomId)
     /\ \A b \in UsersOf(last.roomId) \ {last.c} :
          b \in out[1].to <=> b \in Members(adapter, last.roomId)

\* a member of two rooms has sent an offer to one of them and only its partner
\* in that room has received it
C9_Witness ==
  /\ last.op = "webrtc:offer"
  /\ last.roomId \in RoomsOf(last.c)
  /\ Cardinality(RoomsOf(last.c)) = 2
  /\ Cardinality(UNION { Members(adapter, r) : r \in RoomsOf(last.c) }) = 3
  /\ Len(out) = 1
  /\ out[1].to = UsersOf(last.roomId) \ {last.c}

\* the match:found payload connection u is due in room r
MatchFoundFor(u, r) ==
  LET partner == CHOOSE v \in UsersOf(r) : v # u
  IN [roomId |-> r, partnerId |-> partner, partnerName |-> UserName(partner)]

\* C10: a pairing puts two distinct connections into one room, records the
\* room in the room table and delivers to each of the two exactly one
\* match:found with the room id and the other's id and cached name.
C10_PairingNotifiesBoth ==
  (last.op = "match:request" /\ last.roomId # NoRoom) =>
    LET r == last.roomId
    IN /\ r \in PairRooms
       /\ r \in DOMAIN activeRooms
       /\ activeRooms[r].user1 # activeRooms[r].user2
       /\ UsersOf(r) = {activeRooms[r].user1, activeRooms[r].user2}
       /\ Members(adapter, r) = UsersOf(r)
       /\ \A u \in UsersOf(r) :
            /\ Received(u, "match:found") = 1
            /\ \A i \in Deliveries(u, "match:found") : out[i].data = MatchFoundFor(u, r)

\* the connections waiting when connection c issues match:request, the
\* longest-waiting first: the queue, with c behind it unless c is in it
Waiting(c) == IF c \in Range(adapter.queue) THEN adapter.queue ELSE Append(adapter.queue, c)

\* C11: pairing is FIFO. Whenever a match:request is handled while at least
\* two connections are waiting (the requester included), the room that is
\* formed is the room of the two longest-waiting connections, exactly these two
\* are its members, and every other waiting connection stays queued in its
\* original order.
C11_PairingIsFIFO ==
  [][ (last'.op = "match:request" /\ handled'.request = handled.request + 1) =>
        LET waiting == Waiting(last'.c)
        IN Len(waiting) >= 2 =>
             /\ last'.roomId = PairRoom(waiting[1], waiting[2])
             /\ last'.roomId \in DOMAIN activeRooms'
             /\ Members(adapter', last'.roomId) = {waiting[1], waiting[2]}
             /\ adapter'.queue = SubSeq(waiting, 3, Len(waiting)) ]_vars

\* C11 witness: connection 2 waited, connection 1 arrived later, and the room
\* formed is room_2_1 with the queue left empty.
C11_Witness ==
  /\ last.op = "match:request"
  /\ last.c = 1
  /\ last.roomId = PairRoom(2, 1)
  /\ Members(adapter, PairRoom(2, 1)) = {1, 2}
  /\ adapter.queue = <<>>
  /\ Received(2, "match:found") = 1

\* the users:count broadcasts of the last handler run
CountBroadcasts == { i \in 1 .. Len(out) : out[i].ev = "users:count" }

\* N, the joins by distinct connections so far, and M, the disconnects of
\* joined connections handled so far
JoinsSoFar == Cardinality(joined)

LeavesSoFar == Cardinality({ c \in joined : status[c] = "gone" })

\* C12: with joins and disconnects handled one after another, the handling
\* of a join or of a joined connection's disconnect ends with one users:count
\* broadcast that carries N - M and goes to every connection connected then.
C12_CountIsJoinsMinusLeaves ==
  (last.op \in {"user:join:resolved", "disconnect:resolved", "disconnect:rejected"}) =>
    /\ Cardinality(CountBroadcasts) = 1
    /\ \A i \in CountBroadcasts :
         /\ out[i].data.count = JoinsSoFar - LeavesSoFar
         /\ out[i].to = Connected

C14_FailedLeaveStillLeaves ==
  (last.op = "disconnect:rejected") =>
    /\ last.c \notin DOMAIN activeUsers
    /\ Cardinality(CountBroadcasts) = 1
    /\ \A i \in CountBroadcasts :
         /\ out[i].to = Connected
         /\ out[i].data.count = Cardinality(DOMAIN activeUsers)

\* an event whose payload is absent, or a message:send, room:leave or
\* webrtc:* whose payload has no roomId
Malformed(e) ==
  \/ e.roomId = NoData
  \/ e.roomId = NoRoom /\ e.op \in {"message:send", "room:leave"} \cup SignalKinds

\* C15: an inbound event whose payload is absent or lacks required fields is
\* dropped or answered with a failure event: its handler raises no uncaught
\* error, leaves the registry, the queue and the room table unchanged, and
\* delivers nothing but a failure answer.
C15_MalformedEventIsDropped ==
  [][ Malformed(last') =>
        /\ ~uncaught'
        /\ UNCHANGED <<activeUsers, adapter, activeRooms>>
        /\ \A i \in 1 .. Len(out') :
             \/ out'[i].to = {}
             \/ out'[i].ev = "user:joined" /\ out'[i].data.success = FALSE ]_vars

\* C16: the disconnect cleanup of a connection is one atomic step: once the
\* cleanup of a connection has begun, no handler of another connection's
\* event runs before the cleanup is complete. (A new socket may connect in
\* between: its connection handler reads and writes no shared state.)
C16_CleanupIsAtomic ==
  [][ \A a \in Conns :
        status[a] = "closing" =>
          \/ last'.op = "connection"
          \/ last'.c = a /\ last'.op \in {"disconnect:resolved", "disconnect:rejected"} ]_vars

\* both handlers of connection c have finished: its disconnect has been
\* handled and none of its user:join handlers waits on the user store
Finished(c) == status[c] = "gone" /\ pendingJoin[c] = <<>>

\* C17: the presence registry holds only live connections. Once the
\* user:join handling and the disconnect handling of a connection have both
\* finished, the registry has no entry for it, and a users:count broadcast
\* counts none of these connections.
C17_RegistryHoldsLiveOnly ==
  /\ \A c \in Conns : Finished(c) => c \notin DOMAIN activeUsers
  /\ \A i \in CountBroadcasts :
       out[i].data.count <= Cardinality({ c \in Conns : status[c] # "new" /\ ~Finished(c) })

\* connection c's disconnect has begun
Closed(c) == status[c] \in {"closing", "gone"}

\* C18: pairing is atomic with respect to other match:request and disconnect
\* events. Whoever becomes a member of a pair room does so in a match:request
\* run, was waiting when that run began, is connected and is no longer waiting
\* when it ends, so no second pairing attempt can use the same wait; a
\* connection that has disconnected is in no room and not in the queue, and no
\* match:found names it as partner.
C18_PairingIsAtomic ==
  [][ /\ \A r \in PairRooms : \A u \in Members(adapter', r) \ Members(adapter, r) :
           /\ last'.op = "match:request"
           /\ last'.roomId = r
           /\ u \in Range(Waiting(last'.c))
           /\ u \notin Range(adapter'.queue)
           /\ status'[u] = "connected"
      /\ \A c \in Conns : Closed(c)' => SocketRooms(adapter', c) = {}
      /\ \A i \in 1 .. Len(out') :
           out'[i].ev = "match:found" => status'[out'[i].data.partnerId] = "connected" ]_vars

\* C18 witness: a connection disconnected while it was waiting, and the room
\* a later match:request has just formed is a room of two other connections,
\* each told of the other.
C18_Witness ==
  /\ last.op = "match:request"
  /\ last.roomId \in PairRooms
  /\ \E c \in waitingAtClose :
       /\ Closed(c)
       /\ c \notin UsersOf(last.roomId)
       /\ SocketRooms(adapter, c) = {}
  /\ Members(adapter, last.roomId) = UsersOf(last.roomId)
  /\ \A u \in UsersOf(last.roomId) : Received(u, "match:found") = 1

\* both connections of pair room r were in it when their transports closed,
\* and both disconnect handlers have finished
BothDisconnected(r) == \A u \in UsersOf(r) : status[u] = "gone" /\ r \in roomsAtClose[u]

\* C19: when both members of a room disconnect, no disconnect handler run
\* delivers more than one partner:disconnected to a connection, and once both
\* handlers have finished the room table has no entry for the room.
C19_BothGoneRoomGone ==
  /\ \A a \in Conns : DisconnectHandled(a) =>
       \A b \in Conns : Received(b, "partner:disconnected") <= 1
  /\ \A r \in PairRooms : BothDisconnected(r) => r \notin DOMAIN activeRooms

\* connection c has completed user:join: it has a presence-registry entry
Identified(c) == c \in DOMAIN activeUsers

\* C20: a connection enters the queue, and hence a room, only from the
\* Identified state: whoever is put into the queue or into a pair room by a
\* match:request, or is named as partner in its match:found, has a registry
\* entry.
C20_OnlyIdentifiedQueued ==
  (last.op = "match:request") =>
    /\ Identified(last.c)
    /\ \A u \in Range(adapter.queue) : Identified(u)
    /\ last.roomId \in PairRooms => \A u \in UsersOf(last.roomId) : Identified(u)
    /\ \A i \in 1 .. Len(out) :
         out[i].ev = "match:found" => Identified(out[i].data.partnerId)

\* C21: two waiting connections are always paired immediately. After every
\* handler run fewer than two connections are in the matching queue, and a
\* match:request from a connection other than the one that is waiting forms
\* the room of the two, with both as its members, and leaves the queue empty.
C21_WaitingIsPairedAtOnce ==
  [][ /\ Len(adapter'.queue) < 2
      /\ (/\ last'.op = "match:request"
          /\ handled'.request = handled.request + 1
          /\ adapter.queue # <<>>
          /\ last'.c \notin Range(adapter.queue)) =>
           /\ last'.roomId = PairRoom(adapter.queue[1], last'.c)
           /\ Members(adapter', last'.roomId) = {adapter.queue[1], last'.c}
           /\ adapter'.queue = <<>> ]_vars

\* C21 witness: the second match:request of the run came from another
\* connection than the first and paired the two at once.
C21_Witness ==
  /\ last.op = "match:request"
  /\ handled.request = 2
  /\ last.roomId \in PairRooms
  /\ last.roomId[3] = last.c
  /\ Members(adapter, last.roomId) = UsersOf(last.roomId)
  /\ DOMAIN activeRooms = {last.roomId}
  /\ adapter.queue = <<>>

\* C22: the presence count counts connections, not join events. When a
\* user:join completes on a connection that already has a registry entry,
\* the entry is replaced by the userId and username of that user:join, every
\* other entry and the size of the registry stay as they were, and the one
\* users:count broadcast carries the size the registry had before.
C22_RejoinReplacesEntry ==
  [][ (last'.op = "user:join:resolved" /\ last'.c \in DOMAIN activeUsers) =>
        LET c == last'.c
        IN /\ DOMAIN activeUsers' = DOMAIN activeUsers
           /\ \A u \in DOMAIN activeUsers \ {c} : activeUsers'[u] = activeUsers[u]
           /\ \E i \in 1 .. Len(pendingJoin[c]) :
                /\ pendingJoin'[c] = RemoveAt(pendingJoin[c], i)
                /\ activeUsers'[c] = pendingJoin[c][i]
           /\ Cardinality(CountBroadcasts') = 1
           /\ \A k \in CountBroadcasts' :
                out'[k].data.count = Cardinality(DOMAIN activeUsers) ]_vars

\* C22 witness: the only connection that ever joined is connected, two of
\* its user:join events have run to `activeUsers.set`, the second has just
\* completed, and the broadcast carries 1.
C22_Witness ==
  /\ last.op = "user:join:resolved"
  /\ status[last.c] = "connected"
  /\ handled.registered = 2
  /\ joined = {last.c}
  /\ DOMAIN activeUsers = {last.c}
  /\ \A k \in CountBroadcasts : out[k].data.count = 1 /\ last.c \in out[k].to

====
